---- MODULE Spec2Model ----
(***************************************************************************)
(* A model of src/internal_birefnet/pipeline.py: the model-name registry,  *)
(* the download-on-demand weight cache, the BiRefNetPipeline constructor   *)
(* (device selection, download, weight load) and BiRefNetPipeline.process  *)
(* (resolution rounding, resize, forward pass, resize back, foreground,    *)
(* edge mask).                                                             *)
(*                                                                         *)
(* Strings are TLA+ strings, read character by character with SubSeq, so   *)
(* that formatting (str), parsing (int), strip, split and os.path.join are *)
(* computed as Python computes them.  A single-band image is a record with *)
(* its pixel matrix (a sequence of rows); the pixels of RGB images and of  *)
(* tensors are not modelled, only their shape.  A Python exception is a    *)
(* result with raised = TRUE.                                              *)
(***************************************************************************)
EXTENDS Integers, Sequences, FiniteSets, TLC

VARIABLES
    fs,         \* the file system: files (path -> content), dirs, url_calls
    loads,      \* number of safetensors load_file calls made so far
    inits,      \* number of BiRefNetPipeline constructor calls made so far
    last_init,  \* arguments and outcome of the latest constructor call
    pipe,       \* the pipeline object the caller holds, or NoPipe
    pc,         \* "idle", or what kind of call's result the caller holds
    call,       \* arguments of the latest process call
    ret,        \* what the latest process call produced
    edge_call,  \* arguments of the latest direct get_edge_mask call
    edge_ret    \* what the latest direct get_edge_mask call produced

vars == <<fs, loads, inits, last_init, pipe, pc, call, ret, edge_call, edge_ret>>

(***************************************************************************)
(* Bounds of the model.                                                    *)
(***************************************************************************)
MaxInits == 2
MaxDeviceId == 1
MaxEdgeWidth == 5
MaxSeed == 2

(***************************************************************************)
(* Python strings.                                                         *)
(***************************************************************************)
Char(s, i) == SubSeq(s, i, i)

DigitChars == "0123456789"

IsDigit(c) == \E i \in 1..Len(DigitChars) : Char(DigitChars, i) = c

DigitVal(c) == (CHOOSE i \in 1..Len(DigitChars) : Char(DigitChars, i) = c) - 1

\* the whitespace the resolution strings used here contain
IsSpace(c) == c = " "

RECURSIVE str_nat(_)
str_nat(n) ==
    IF n < Len(DigitChars) THEN Char(DigitChars, n + 1)
    ELSE str_nat(n \div Len(DigitChars)) \o Char(DigitChars, (n % Len(DigitChars)) + 1)

\* str(n) and the f-string "{n}" of an int
str(n) == IF n < 0 THEN "-" \o str_nat(-n) ELSE str_nat(n)

RECURSIVE lstrip(_)
lstrip(s) == IF Len(s) > 0 /\ IsSpace(Char(s, 1)) THEN lstrip(Tail(s)) ELSE s

RECURSIVE rstrip(_)
rstrip(s) ==
    IF Len(s) > 0 /\ IsSpace(Char(s, Len(s))) THEN rstrip(SubSeq(s, 1, Len(s) - 1)) ELSE s

strip(s) == rstrip(lstrip(s))

\* s.split(sep) for a one-character separator: a sequence of strings
RECURSIVE split(_, _)
split(s, sep) ==
    IF \E i \in 1..Len(s) : Char(s, i) = sep
    THEN LET i == CHOOSE k \in 1..Len(s) :
                      Char(s, k) = sep /\ \A j \in 1..(k - 1) : Char(s, j) # sep
         IN  <<SubSeq(s, 1, i - 1)>> \o split(SubSeq(s, i + 1, Len(s)), sep)
    ELSE <<s>>

RECURSIVE digits_value(_)
digits_value(s) ==
    IF Len(s) = 0 THEN 0
    ELSE digits_value(SubSeq(s, 1, Len(s) - 1)) * Len(DigitChars) + DigitVal(Char(s, Len(s)))

AllDigits(s) == Len(s) > 0 /\ \A i \in 1..Len(s) : IsDigit(Char(s, i))

\* int(s) of a str: surrounding whitespace, an optional sign, decimal digits;
\* any other string over the characters used here (digits, space, sign, ".",
\* letters) is a ValueError
int(s) ==
    LET t == strip(s)
        neg == Len(t) > 0 /\ Char(t, 1) = "-"
        pos == Len(t) > 0 /\ Char(t, 1) = "+"
        body == IF neg \/ pos THEN Tail(t) ELSE t
    IN  IF AllDigits(body)
        THEN [raised |-> FALSE, val |-> IF neg THEN -digits_value(body) ELSE digits_value(body)]
        ELSE [raised |-> TRUE, val |-> 0]

\* sub in s
Contains(s, sub) ==
    \E i \in 1..(Len(s) - Len(sub) + 1) : SubSeq(s, i, i + Len(sub) - 1) = sub

\* os.path.join of two components (POSIX)
join(a, b) ==
    IF Len(b) > 0 /\ Char(b, 1) = "/" THEN b
    ELSE IF Len(a) = 0 \/ Char(a, Len(a)) = "/" THEN a \o b
    ELSE a \o "/" \o b

(***************************************************************************)
(* The registry and the weight cache.                                      *)
(***************************************************************************)
models_path == "/webui/models"

usage_to_weights_file ==
    ("General" :> "BiRefNet") @@
    ("General-HR" :> "BiRefNet_HR") @@
    ("General-Lite" :> "BiRefNet_T") @@
    ("General-Lite-2K" :> "BiRefNet_lite-2K") @@
    ("Portrait" :> "BiRefNet-portrait") @@
    ("Matting" :> "BiRefNet-matting") @@
    ("Matting-HR" :> "BiRefNet_HR-matting") @@
    ("Matting-Lite" :> "BiRefNet_lite-matting") @@
    ("Anime-Lite" :> "BiRefNet_lite-anime") @@
    ("Dynamic" :> "BiRefNet_dynamic") @@
    ("DIS" :> "BiRefNet-DIS5K") @@
    ("HRSOD" :> "BiRefNet-HRSOD") @@
    ("COD" :> "BiRefNet-COD") @@
    ("DIS-TR_TEs" :> "BiRefNet-DIS5K-TR_TEs")

BiRefNetModelName ==
    {"General", "General-HR", "General-Lite", "General-Lite-2K", "Portrait",
     "Matting", "Matting-HR", "Matting-Lite", "Anime-Lite", "Dynamic", "DIS",
     "HRSOD", "COD", "DIS-TR_TEs"}

\* mutant of get_model_path: the file name of the URL instead of the model's
get_model_path_fixed_name(model_name) ==
    join(join(models_path, "birefnet"), "model.safetensors")

get_model_path(model_name) ==
    join(join(models_path, "birefnet"), model_name \o ".safetensors")

\* load_file_from_url(url, model_dir=..., file_name=...): one call, logged; it
\* writes model_dir/file_name when the transfer succeeds and raises otherwise
load_file_from_url(f, url, model_dir, file_name, net_ok) ==
    [f EXCEPT
        !.url_calls = Append(@, [url |-> url, model_dir |-> model_dir,
                                 file_name |-> file_name, ok |-> net_ok]),
        !.files = IF net_ok THEN (join(model_dir, file_name) :> url) @@ @ ELSE @,
        !.raised = ~net_ok]

\* mutant of download_one: the file is fetched whether or not it is there
download_one_always(f, model_root, local_file, url, net_ok) ==
    load_file_from_url(f, url, model_root, local_file, net_ok)

\* the body of the loop of download_models for one (local_file, url) pair
download_one(f, model_root, local_file, url, net_ok) ==
    LET local_path == join(model_root, local_file)
    IN  IF local_path \notin DOMAIN f.files
        THEN load_file_from_url(f, url, model_root, local_file, net_ok)
        ELSE f

\* the loop of download_models over model_urls, from its i-th pair on; an
\* exception ends it
RECURSIVE download_loop(_, _, _, _, _)
download_loop(f, model_root, model_urls, i, net_ok) ==
    IF i > Len(model_urls) \/ f.raised THEN f
    ELSE download_loop(download_one(f, model_root, model_urls[i][1], model_urls[i][2], net_ok),
                       model_root, model_urls, i + 1, net_ok)

download_models(f, model_root, model_urls, net_ok) ==
    LET f0 == IF model_root \notin f.dirs
              THEN [f EXCEPT !.dirs = @ \cup {model_root}]
              ELSE f
    IN  download_loop(f0, model_root, model_urls, 1, net_ok)

weights_url(model_name) ==
    "https://huggingface.co/ZhengPeng7/" \o usage_to_weights_file[model_name]
        \o "/resolve/main/model.safetensors"

download_birefnet_model(f, model_name, net_ok) ==
    LET model_root == join(models_path, "birefnet")
        model_urls == <<  <<model_name \o ".safetensors", weights_url(model_name)>>  >>
    IN  download_models(f, model_root, model_urls, net_ok)

(***************************************************************************)
(* The pipeline object and its constructor.                                *)
(***************************************************************************)
\* what torch.backends.mps.is_available() and torch.cuda.is_available() can do
Probe == {"True", "False", "raise"}

NoModel == [bb_index |-> 0, weights |-> "", device |-> "", training |-> FALSE, half |-> FALSE]

NoPipe ==
    [constructed |-> FALSE, model_name |-> "", device_id |-> 0, flag_force_cpu |-> FALSE,
     use_fp16 |-> FALSE, device |-> "", birefnet |-> NoModel]

\* the body of the try block of the constructor
probe_device(device_id, mps, cuda) ==
    IF mps = "raise" THEN [raised |-> TRUE, device |-> ""]
    ELSE IF mps = "True" THEN [raised |-> FALSE, device |-> "mps"]
    ELSE IF cuda = "raise" THEN [raised |-> TRUE, device |-> ""]
    ELSE IF cuda = "True" THEN [raised |-> FALSE, device |-> "cuda:" \o str(device_id)]
    ELSE [raised |-> FALSE, device |-> "cpu"]

\* mutant of select_device: the probes run outside any try block
select_device_no_except(flag_force_cpu, device_id, mps, cuda) ==
    IF flag_force_cpu THEN [raised |-> FALSE, device |-> "cpu"]
    ELSE probe_device(device_id, mps, cuda)

select_device(flag_force_cpu, device_id, mps, cuda) ==
    IF flag_force_cpu THEN [raised |-> FALSE, device |-> "cpu"]
    ELSE LET t == probe_device(device_id, mps, cuda)
         IN  IF t.raised THEN [raised |-> FALSE, device |-> "cpu"] ELSE t

\* safetensors load_file(path, device=...)
load_file(f, path, device) ==
    IF path \in DOMAIN f.files
    THEN [raised |-> FALSE, source |-> f.files[path], device |-> device]
    ELSE [raised |-> TRUE, source |-> "", device |-> device]

bb_index_of(model_name) == IF Contains(model_name, "Lite") THEN 3 ELSE 6

\* BiRefNetPipeline.__init__: the file system it leaves, the number of weight
\* loads it made, the object it built, and whether it raised
BiRefNetPipeline_init(f, model_name, device_id, flag_force_cpu, use_fp16, mps, cuda, net_ok) ==
    LET dev == select_device(flag_force_cpu, device_id, mps, cuda)
        f1 == download_birefnet_model(f, model_name, net_ok)
        weight_path == get_model_path(model_name)
        state_dict == load_file(f1, weight_path, dev.device)
        birefnet == [bb_index |-> bb_index_of(model_name), weights |-> state_dict.source,
                     device |-> dev.device, training |-> FALSE, half |-> use_fp16]
        self == [constructed |-> TRUE, model_name |-> model_name, device_id |-> device_id,
                 flag_force_cpu |-> flag_force_cpu, use_fp16 |-> use_fp16,
                 device |-> dev.device, birefnet |-> birefnet]
    IN  IF dev.raised
        THEN [raised |-> TRUE, device_raised |-> TRUE, fs |-> f, loaded |-> 0,
              self |-> NoPipe, device |-> ""]
        ELSE IF f1.raised
        THEN [raised |-> TRUE, device_raised |-> FALSE, fs |-> [f1 EXCEPT !.raised = FALSE],
              loaded |-> 0, self |-> NoPipe, device |-> dev.device]
        ELSE IF state_dict.raised
        THEN [raised |-> TRUE, device_raised |-> FALSE, fs |-> f1, loaded |-> 1,
              self |-> NoPipe, device |-> dev.device]
        ELSE [raised |-> FALSE, device_raised |-> FALSE, fs |-> f1, loaded |-> 1,
              self |-> self, device |-> dev.device]

(***************************************************************************)
(* Images and tensors.  An image is [mode, width, height, data]; data is   *)
(* the pixel matrix data[row][column] of a single band (the band of an "L" *)
(* image, the alpha band of an "RGBA" image) and <<>> where the pixels are *)
(* not modelled.                                                           *)
(***************************************************************************)
NoneImg == [mode |-> "None", width |-> 0, height |-> 0, data |-> <<>>]

RGBImage(w, h) == [mode |-> "RGB", width |-> w, height |-> h, data |-> <<>>]

\* the pixels a prediction shows once it is rendered at w x h: a soft mask with
\* values in 0..255, one pattern per forward-pass outcome (seed)
Pattern(seed, w, h) ==
    [r \in 1..h |-> [c \in 1..w |->
        IF seed = 0 THEN 0
        ELSE IF (r + c) % seed = 0 THEN 255 - ((r * c) % 200)
        ELSE 0]]

\* Image.resize(size): size must be a pair of positive numbers
resize(image, size) ==
    IF Len(size) # 2 THEN [raised |-> TRUE, img |-> NoneImg]
    ELSE IF size[1] < 1 \/ size[2] < 1 THEN [raised |-> TRUE, img |-> NoneImg]
    ELSE [raised |-> FALSE,
          img |-> [mode |-> image.mode, width |-> size[1], height |-> size[2], data |-> <<>>]]

\* ImagePreprocessor.proc: ToTensor and Normalize give a float CxHxW tensor
proc(image) == [shape |-> <<3, image.height, image.width>>, dtype |-> "float32"]

unsqueeze0(t) == [t EXCEPT !.shape = <<1>> \o @]

half(t) == [t EXCEPT !.dtype = "float16"]

\* self.birefnet(x)[-1].sigmoid(): a 1x1xHxW map of the input's height and width
forward(self, t, seed) ==
    [shape |-> <<1, 1, t.shape[3], t.shape[4]>>, dtype |-> t.dtype,
     device |-> self.device, seed |-> seed]

\* scaled_pred_tensor[0].squeeze().cpu()
squeeze_pred(t) ==
    [shape |-> SelectSeq(SubSeq(t.shape, 2, Len(t.shape)), LAMBDA d : d # 1),
     dtype |-> t.dtype, device |-> "cpu", seed |-> t.seed]

\* mutant of pred_to_mask: the prediction is not resized back
pred_to_mask_no_resize(pred, size) ==
    [mode |-> "L", width |-> pred.shape[2], height |-> pred.shape[1],
     data |-> Pattern(pred.seed, pred.shape[2], pred.shape[1])]

\* transforms.ToPILImage()(pred).resize(size)
pred_to_mask(pred, size) ==
    [mode |-> "L", width |-> size[1], height |-> size[2],
     data |-> Pattern(pred.seed, size[1], size[2])]

\* refine_foreground(image, mask): an RGB image of the size of image
refine_foreground(image, mask) == RGBImage(image.width, image.height)

\* Image.putalpha(alpha): the band must have the size of the image
putalpha(image, alpha) ==
    IF image.width # alpha.width \/ image.height # alpha.height
    THEN [raised |-> TRUE, img |-> NoneImg]
    ELSE [raised |-> FALSE,
          img |-> [mode |-> "RGBA", width |-> image.width, height |-> image.height,
                   data |-> alpha.data]]

(***************************************************************************)
(* Morphology: scipy.ndimage on the array of an "L" image.                 *)
(***************************************************************************)
abs(n) == IF n < 0 THEN -n ELSE n

\* the offsets (row, column) of the set cells of a structure from its centre
Offsets(structure) ==
    LET n == Len(structure)
    IN  {<<rc[1] - 1 - (n \div 2), rc[2] - 1 - (n \div 2)>> :
            rc \in {p \in (1..n) \X (1..n) : structure[p[1]][p[2]] # 0}}

InGrid(input, r, c) == r \in 1..Len(input) /\ c \in 1..Len(input[1])

\* binary_dilation(input, structure): border_value 0, origin at the centre
binary_dilation(input, structure) ==
    IF Len(structure) < 1 THEN [raised |-> TRUE, val |-> <<>>]
    ELSE LET off == Offsets(structure)
         IN  [raised |-> FALSE,
              val |-> [r \in 1..Len(input) |-> [c \in 1..Len(input[1]) |->
                         \E o \in off : /\ InGrid(input, r - o[1], c - o[2])
                                        /\ input[r - o[1]][c - o[2]] # 0]]]

\* binary_erosion(input, structure): border_value 0, origin at the centre
binary_erosion(input, structure) ==
    IF Len(structure) < 1 THEN [raised |-> TRUE, val |-> <<>>]
    ELSE LET off == Offsets(structure)
         IN  [raised |-> FALSE,
              val |-> [r \in 1..Len(input) |-> [c \in 1..Len(input[1]) |->
                         \A o \in off : /\ InGrid(input, r + o[1], c + o[2])
                                        /\ input[r + o[1]][c + o[2]] # 0]]]

\* the disc kernel both branches of dilate_mask build
disc_kernel(dilation_amt_abs) ==
    LET center == dilation_amt_abs \div 2
    IN  [y \in 1..dilation_amt_abs |-> [x \in 1..dilation_amt_abs |->
            IF ((x - 1) - center) * ((x - 1) - center)
                 + ((y - 1) - center) * ((y - 1) - center) <= center * center
            THEN 1 ELSE 0]]

dilate_mask(mask, dilation_amt) ==
    LET dilation_amt_abs == abs(dilation_amt)
        dilation_kernel == disc_kernel(dilation_amt_abs)
    IN  IF dilation_amt < 0
        THEN binary_erosion(mask.data, dilation_kernel)
        ELSE binary_dilation(mask.data, dilation_kernel)

\* Image.fromarray(binary_img.astype(np.uint8) * 255)
fromarray_255(binary_img) ==
    [mode |-> "L", width |-> Len(binary_img[1]), height |-> Len(binary_img),
     data |-> [r \in 1..Len(binary_img) |-> [c \in 1..Len(binary_img[1]) |->
                 ((IF binary_img[r][c] THEN 1 ELSE 0) * 255) % 256]]]

get_edge_mask(mask, mask_width) ==
    LET dilation_amt == mask_width \div 2
        dilate_binary_img == dilate_mask(mask, dilation_amt)
        erode_binary_img == dilate_mask(mask, -dilation_amt)
    IN  IF dilate_binary_img.raised \/ erode_binary_img.raised
        THEN [raised |-> TRUE, img |-> NoneImg]
        ELSE LET d == dilate_binary_img.val
                 e == erode_binary_img.val
                 binary_img == [r \in 1..Len(d) |-> [c \in 1..Len(d[1]) |->
                                  d[r][c] # e[r][c]]]
             IN  [raised |-> FALSE, img |-> fromarray_255(binary_img)]

(***************************************************************************)
(* BiRefNetPipeline.process.                                               *)
(***************************************************************************)
\* mutant of round32: rounds to the nearest multiple instead of down
round32_nearest(n) == ((n + 16) \div 32) * 32

\* int(reso) // 32 * 32
round32(n) == (n \div 32) * 32

\* the working resolution: the list the two comprehension lines build
image_resolution(image, resolution) ==
    LET text == IF resolution = ""
                THEN str(image.width) \o "x" \o str(image.height)
                ELSE resolution
        parts == split(strip(text), "x")
        vals == [i \in 1..Len(parts) |-> int(parts[i])]
    IN  IF \E i \in 1..Len(parts) : vals[i].raised
        THEN [raised |-> TRUE, val |-> <<>>]
        ELSE [raised |-> FALSE, val |-> [i \in 1..Len(parts) |-> round32(vals[i].val)]]

\* mutant of nothing_requested: one "not" is missing
nothing_requested_missing_not(return_mask, return_foreground, return_edge_mask) ==
    ~return_mask /\ ~return_foreground /\ return_edge_mask

\* the guard of the early return
nothing_requested(return_mask, return_foreground, return_edge_mask) ==
    ~return_mask /\ ~return_foreground /\ ~return_edge_mask

\* mutant of returned_mask: the computed mask is returned whatever the flag
returned_mask_kept(mask, return_mask) == mask

\* the mask as returned
returned_mask(mask, return_mask) == IF ~return_mask THEN NoneImg ELSE mask

Outcome(kind, mask, foreground, edge_mask, steps, working) ==
    [kind |-> kind, mask |-> mask, foreground |-> foreground, edge_mask |-> edge_mask,
     steps |-> steps, image_resolution |-> working]

\* seed stands for what the forward pass computes
process(self, image, resolution, return_mask, return_foreground, return_edge_mask, edge_mask_width, seed) ==
    IF nothing_requested(return_mask, return_foreground, return_edge_mask)
    THEN Outcome("returned", NoneImg, NoneImg, NoneImg, <<>>, <<>>)
    ELSE
    LET res == image_resolution(image, resolution)
        image_pil == resize(image, res.val)
        image_proc0 == unsqueeze0(proc(image_pil.img))
        image_proc == IF self.use_fp16 THEN half(image_proc0) ELSE image_proc0
        scaled_pred_tensor == forward(self, image_proc, seed)
        pred == squeeze_pred(scaled_pred_tensor)
        mask == pred_to_mask(pred, <<image.width, image.height>>)
        foreground == IF return_foreground
                      THEN putalpha(refine_foreground(image, mask), mask)
                      ELSE [raised |-> FALSE, img |-> NoneImg]
        edge_mask == IF return_edge_mask
                     THEN get_edge_mask(mask, edge_mask_width)
                     ELSE [raised |-> FALSE, img |-> NoneImg]
        s1 == <<"parse">>
        s2 == s1 \o <<"resize">>
        s5 == s2 \o <<"preprocess", "forward", "resize_back">>
        s6 == IF return_foreground THEN s5 \o <<"foreground">> ELSE s5
        s7 == IF return_edge_mask THEN s6 \o <<"edge_mask">> ELSE s6
    IN  IF res.raised
        THEN Outcome("raised", NoneImg, NoneImg, NoneImg, s1, <<>>)
        ELSE IF image_pil.raised
        THEN Outcome("raised", NoneImg, NoneImg, NoneImg, s2, res.val)
        ELSE IF foreground.raised
        THEN Outcome("raised", NoneImg, NoneImg, NoneImg, s6, res.val)
        ELSE IF edge_mask.raised
        THEN Outcome("raised", NoneImg, NoneImg, NoneImg, s7, res.val)
        ELSE Outcome("returned", returned_mask(mask, return_mask), foreground.img,
                     edge_mask.img, s7, res.val)

\* mutant of process_effects: the weights are fetched and loaded on every call
process_effects_reload(self, f, n_loads) ==
    LET r == BiRefNetPipeline_init(f, self.model_name, self.device_id, self.flag_force_cpu,
                                   self.use_fp16, "False", "False", TRUE)
    IN  [self |-> IF r.raised THEN self ELSE r.self, fs |-> r.fs, loads |-> n_loads + r.loaded]

\* what process leaves of the pipeline, the file system and the count of weight
\* loads: it assigns no attribute of self and calls neither
\* download_birefnet_model nor load_file
process_effects(self, f, n_loads) == [self |-> self, fs |-> f, loads |-> n_loads]

(***************************************************************************)
(* State machine.  A call is one step: the whole constructor, the whole of *)
(* process, the whole of get_edge_mask.  The caller then drops what the    *)
(* call gave back (Discard) before it calls again.                         *)
(***************************************************************************)
NoInit ==
    [model_name |-> "", device_id |-> 0, flag_force_cpu |-> FALSE, use_fp16 |-> FALSE,
     mps |-> "", cuda |-> "", net_ok |-> FALSE, raised |-> FALSE, device_raised |-> FALSE,
     device |-> ""]

NoCall ==
    [image |-> NoneImg, resolution |-> "", return_mask |-> FALSE,
     return_foreground |-> FALSE, return_edge_mask |-> FALSE, edge_mask_width |-> 0,
     seed |-> 0]

NoRet == Outcome("none", NoneImg, NoneImg, NoneImg, <<>>, <<>>)

NoEdgeCall == [mask |-> NoneImg, mask_width |-> 0]

NoEdgeRet == [raised |-> FALSE, img |-> NoneImg]

EmptyFs == [files |-> <<>>, dirs |-> {}, url_calls |-> <<>>, raised |-> FALSE]

\* the model names the constructor is called with
UsedModelNames == {"General", "Matting-Lite"}

\* the numbers resolution strings are written from, and the strings
Dims == {-40, 16, 33, 64}

WxH(w, h) == str(w) \o "x" \o str(h)

Resolutions ==
    {""} \cup {WxH(w, h) : w \in Dims, h \in Dims}
         \cup {" 64x33 ", "64 x 33", "64", "64x64x64", "64X33", "x", "6.4x33"}

EdgeWidths == (-MaxEdgeWidth)..MaxEdgeWidth

CallArgs(sizes, resolutions, flags, widths, seeds) ==
    {[image |-> RGBImage(sz[1], sz[2]), resolution |-> rs, return_mask |-> fl[1],
      return_foreground |-> fl[2], return_edge_mask |-> fl[3], edge_mask_width |-> wd,
      seed |-> sd] :
        sz \in sizes, rs \in resolutions, fl \in flags, wd \in widths, sd \in seeds}

AllCalls ==
    CallArgs({<<3, 2>>, <<33, 32>>, <<20, 70>>}, Resolutions,
             BOOLEAN \X BOOLEAN \X BOOLEAN, {-MaxEdgeWidth, 0, 1, 2, MaxEdgeWidth},
             0..MaxSeed)

FewCalls ==
    CallArgs({<<3, 2>>}, {"", "64x33"},
             {<<FALSE, FALSE, FALSE>>, <<TRUE, FALSE, FALSE>>, <<TRUE, TRUE, TRUE>>},
             {2}, {1})

\* the masks get_edge_mask is called with directly
EdgeMasks ==
    {[mode |-> "L", width |-> 4, height |-> 3, data |-> d] :
        d \in [1..3 -> [1..4 -> {0, 255}]]}
    \cup {[mode |-> "L", width |-> 2, height |-> 2, data |-> d] :
        d \in [1..2 -> [1..2 -> {0, 1, 255}]]}

Init ==
    /\ fs = EmptyFs
    /\ loads = 0
    /\ inits = 0
    /\ last_init = NoInit
    /\ pipe = NoPipe
    /\ pc = "idle"
    /\ call = NoCall
    /\ ret = NoRet
    /\ edge_call = NoEdgeCall
    /\ edge_ret = NoEdgeRet

\* pipe = BiRefNetPipeline(model_name, device_id, flag_force_cpu, use_fp16)
Construct ==
    /\ pc = "idle"
    /\ inits < MaxInits
    /\ \E model_name \in UsedModelNames, device_id \in 0..MaxDeviceId,
          flag_force_cpu \in BOOLEAN, use_fp16 \in BOOLEAN,
          mps \in Probe, cuda \in Probe, net_ok \in BOOLEAN :
          LET r == BiRefNetPipeline_init(fs, model_name, device_id, flag_force_cpu,
                                         use_fp16, mps, cuda, net_ok)
          IN  /\ fs' = r.fs
              /\ loads' = loads + r.loaded
              /\ inits' = inits + 1
              /\ last_init' = [model_name |-> model_name, device_id |-> device_id,
                               flag_force_cpu |-> flag_force_cpu, use_fp16 |-> use_fp16,
                               mps |-> mps, cuda |-> cuda, net_ok |-> net_ok,
                               raised |-> r.raised, device_raised |-> r.device_raised,
                               device |-> r.device]
              /\ pipe' = IF r.raised THEN pipe ELSE r.self
    /\ pc' = "constructed"
    /\ UNCHANGED <<call, ret, edge_call, edge_ret>>

\* pipe.process(image, resolution, return_mask, return_foreground,
\*              return_edge_mask, edge_mask_width), with arguments from args
ProcessCall(args) ==
    /\ pc = "idle"
    /\ pipe.constructed
    /\ \E a \in args :
          /\ call' = a
          /\ ret' = process(pipe, a.image, a.resolution, a.return_mask,
                            a.return_foreground, a.return_edge_mask,
                            a.edge_mask_width, a.seed)
    /\ LET e == process_effects(pipe, fs, loads)
       IN  pipe' = e.self /\ fs' = e.fs /\ loads' = e.loads
    /\ pc' = "returned"
    /\ UNCHANGED <<inits, last_init, edge_call, edge_ret>>

\* pipe.get_edge_mask(mask, mask_width)
EdgeCall ==
    /\ pc = "idle"
    /\ pipe.constructed
    /\ \E mask \in EdgeMasks, mask_width \in EdgeWidths :
          /\ edge_call' = [mask |-> mask, mask_width |-> mask_width]
          /\ edge_ret' = get_edge_mask(mask, mask_width)
    /\ pc' = "edge_returned"
    /\ UNCHANGED <<fs, loads, inits, last_init, pipe, call, ret>>

\* the caller is done with what the call gave back
Discard ==
    /\ pc # "idle"
    /\ pc' = "idle"
    /\ last_init' = NoInit
    /\ call' = NoCall
    /\ ret' = NoRet
    /\ edge_call' = NoEdgeCall
    /\ edge_ret' = NoEdgeRet
    /\ UNCHANGED <<fs, loads, inits, pipe>>

\* the life of the module: pipelines are constructed and used
Next == Construct \/ ProcessCall(FewCalls) \/ Discard

Spec == Init /\ [][Next]_vars

\* one pipeline, constructed on a fresh cache, then any number of calls
InitConstructed ==
    \E use_fp16 \in BOOLEAN :
        LET r == BiRefNetPipeline_init(EmptyFs, "General", 0, FALSE, use_fp16,
                                       "False", "True", TRUE)
        IN  /\ fs = r.fs
            /\ loads = r.loaded
            /\ inits = 1
            /\ last_init = NoInit
            /\ pipe = r.self
            /\ pc = "idle"
            /\ call = NoCall
            /\ ret = NoRet
            /\ edge_call = NoEdgeCall
            /\ edge_ret = NoEdgeRet

NextProcess == ProcessCall(AllCalls) \/ Discard

SpecProcess == InitConstructed /\ [][NextProcess]_vars

NextEdge == EdgeCall \/ Discard

SpecEdge == InitConstructed /\ [][NextEdge]_vars

(***************************************************************************)
(* Properties.                                                             *)
(***************************************************************************)
AnyRequested == call.return_mask \/ call.return_foreground \/ call.return_edge_mask

\* C1: a call to process that returns yields (mask, foreground, edge_mask) with
\* each component non-None exactly when its own flag is true; the mask is None
\* when return_mask is false even if it was computed for the other two.
C1_TripleMatchesFlags ==
    (pc = "returned" /\ ret.kind = "returned") =>
        /\ (ret.mask # NoneImg) <=> call.return_mask
        /\ (ret.foreground # NoneImg) <=> call.return_foreground
        /\ (ret.edge_mask # NoneImg) <=> call.return_edge_mask

\* a call returned the foreground and the edge mask, both made from the mask,
\* and None for the mask
C1_Witness ==
    /\ pc = "returned"
    /\ ret.kind = "returned"
    /\ ~call.return_mask /\ call.return_foreground /\ call.return_edge_mask
    /\ ret.mask = NoneImg
    /\ ret.foreground.mode = "RGBA"
    /\ ret.edge_mask.mode = "L"

\* the new entries of the log of load_file_from_url calls in a step
NewUrlCalls == SubSeq(fs'.url_calls, Len(fs.url_calls) + 1, Len(fs'.url_calls))

SuccessfulDownloads(f, file_name) ==
    {i \in 1..Len(f.url_calls) : f.url_calls[i].ok /\ f.url_calls[i].file_name = file_name}

\* C2: a constructor call for a model name calls load_file_from_url exactly when
\* models_path/birefnet/<name>.safetensors does not exist at that moment (one
\* call, for that file, in that directory) and never when it exists; no other
\* step downloads; so no weights file is downloaded successfully more than once.
C2_DownloadOnDemand ==
    [][ /\ pc' = "constructed" =>
            LET file_name == last_init'.model_name \o ".safetensors"
                local_path == models_path \o "/birefnet/" \o file_name
            IN  IF local_path \in DOMAIN fs.files
                THEN NewUrlCalls = <<>>
                ELSE /\ Len(NewUrlCalls) = 1
                     /\ NewUrlCalls[1].file_name = file_name
                     /\ NewUrlCalls[1].model_dir = models_path \o "/birefnet"
                     /\ NewUrlCalls[1].ok <=> local_path \in DOMAIN fs'.files
        /\ pc' # "constructed" => NewUrlCalls = <<>>
        /\ \A n \in UsedModelNames :
              Cardinality(SuccessfulDownloads(fs', n \o ".safetensors")) <= 1
      ]_vars

\* a second construction with the same model name, after a first one that
\* downloaded the weights, made no download
C2_Witness ==
    /\ pc = "constructed"
    /\ inits = 2
    /\ ~last_init.raised
    /\ Len(fs.url_calls) = 1
    /\ fs.url_calls[1].ok
    /\ fs.url_calls[1].file_name = last_init.model_name \o ".safetensors"
    /\ loads = 2

\* the largest multiple of 32 that does not exceed n
Floor32(n) == CHOOSE m \in (n - 31)..n : m % 32 = 0

\* C3: the resolution the image is resized to is the request rounded down to
\* multiples of 32 in each dimension: the numbers of a "WxH" string, or the
\* width and height of the image when the string is empty.
C3_RoundedToMultiplesOf32 ==
    (pc = "returned" /\ AnyRequested) =>
        /\ \A w \in Dims, h \in Dims :
              call.resolution = WxH(w, h) =>
                  ret.image_resolution = <<Floor32(w), Floor32(h)>>
        /\ call.resolution = "" =>
              ret.image_resolution = <<Floor32(call.image.width), Floor32(call.image.height)>>
        /\ \A i \in 1..Len(ret.image_resolution) : ret.image_resolution[i] % 32 = 0

\* a call with a request that is no multiple of 32 was resized to the multiples
\* below it and returned
C3_Witness ==
    /\ pc = "returned"
    /\ ret.kind = "returned"
    /\ call.resolution = "33x64"
    /\ call.image.width = 20
    /\ ret.image_resolution = <<32, 64>>

\* C4: device selection never raises: "cpu" when flag_force_cpu; otherwise "mps"
\* if MPS is available, else "cuda:<device_id>" if CUDA is available, else
\* "cpu"; a probe that raises gives "cpu".
C4_DeviceSelection ==
    pc = "constructed" =>
        /\ ~last_init.device_raised
        /\ last_init.flag_force_cpu => last_init.device = "cpu"
        /\ ~last_init.flag_force_cpu =>
              last_init.device =
                  CASE last_init.mps = "raise" -> "cpu"
                    [] last_init.mps = "True" -> "mps"
                    [] last_init.mps = "False" /\ last_init.cuda = "raise" -> "cpu"
                    [] last_init.mps = "False" /\ last_init.cuda = "True" ->
                          "cuda:" \o ToString(last_init.device_id)
                    [] last_init.mps = "False" /\ last_init.cuda = "False" -> "cpu"
        /\ ~last_init.raised => pipe.device = last_init.device

\* a constructor call whose CUDA probe raised built a pipeline on "cpu"
C4_Witness ==
    /\ pc = "constructed"
    /\ ~last_init.flag_force_cpu
    /\ last_init.mps = "False"
    /\ last_init.cuda = "raise"
    /\ ~last_init.raised
    /\ pipe.device = "cpu"

\* C5: a process call makes no download and no weight load and leaves the
\* pipeline object (model_name, device, use_fp16, the loaded model) unchanged;
\* these change only in a constructor call, which loads the weights once.
C5_LoadedOnlyInConstructor ==
    [][ /\ pc' = "returned" =>
            /\ pipe' = pipe
            /\ fs' = fs
            /\ loads' = loads
        /\ (pipe' # pipe \/ fs' # fs \/ loads' # loads) => pc' = "constructed"
        /\ (pc' = "constructed" /\ ~last_init'.raised) =>
            /\ loads' = loads + 1
            /\ pipe'.birefnet.weights = fs'.files[get_model_path(pipe'.model_name)]
      ]_vars

\* a process call returned on a pipeline whose constructor made the one
\* download and the one load there have been
C5_Witness ==
    /\ pc = "returned"
    /\ ret.kind = "returned"
    /\ ret.mask.mode = "L"
    /\ pipe.constructed
    /\ loads = 1
    /\ Len(fs.url_calls) = 1

\* the edge mask the claim describes: 255 where the dilation and the erosion of
\* the mask by the disc kernel of side |mask_width // 2| differ, 0 elsewhere
XorOfDilationAndErosion(mask, mask_width) ==
    LET k == disc_kernel(abs(mask_width \div 2))
        dil == binary_dilation(mask.data, k)
        ero == binary_erosion(mask.data, k)
    IN  [raised |-> dil.raised \/ ero.raised,
         data |-> IF dil.raised \/ ero.raised THEN <<>>
                  ELSE [r \in 1..mask.height |-> [c \in 1..mask.width |->
                          IF dil.val[r][c] # ero.val[r][c] THEN 255 ELSE 0]]]

\* C6: for every integer edge_mask_width, get_edge_mask returns the pixelwise
\* XOR of a dilation and an erosion of the mask, both made with the same disc
\* kernel of side |edge_mask_width // 2|.
C6_EdgeIsDilationXorErosion ==
    pc = "edge_returned" =>
        /\ ~edge_ret.raised
        /\ edge_ret.img.data = XorOfDilationAndErosion(edge_call.mask, edge_call.mask_width).data

\* what holds of get_edge_mask: it raises exactly when the kernel is empty
\* (mask_width 0 or 1) and returns the XOR otherwise
EdgeIsXorUnlessKernelEmpty ==
    pc = "edge_returned" =>
        IF edge_call.mask_width \in {0, 1}
        THEN edge_ret.raised
        ELSE /\ ~edge_ret.raised
             /\ edge_ret.img.width = edge_call.mask.width
             /\ edge_ret.img.height = edge_call.mask.height
             /\ edge_ret.img.data =
                  XorOfDilationAndErosion(edge_call.mask, edge_call.mask_width).data

\* C7: with the three flags false process returns (None, None, None) at once,
\* whatever the image, the resolution and the edge mask width: nothing is
\* parsed, resized or run.
C7_NothingRequestedReturnsNones ==
    (pc = "returned" /\ ~AnyRequested) =>
        /\ ret.kind = "returned"
        /\ ret.mask = NoneImg /\ ret.foreground = NoneImg /\ ret.edge_mask = NoneImg
        /\ ret.steps = <<>>
        /\ ret.image_resolution = <<>>

\* a call with no flag set, a resolution that cannot be parsed and an edge mask
\* width whose kernel is empty returned the three Nones
C7_Witness ==
    /\ pc = "returned"
    /\ ~AnyRequested
    /\ call.resolution = "x"
    /\ call.edge_mask_width = 0
    /\ ret.kind = "returned"
    /\ ret.steps = <<>>

HasSizeOf(img, image) ==
    /\ img.width = image.width
    /\ img.height = image.height
    /\ Len(img.data) = image.height
    /\ \A r \in 1..Len(img.data) : Len(img.data[r]) = image.width

StepOrder == <<"parse", "resize", "preprocess", "forward", "resize_back", "foreground", "edge_mask">>

StepIndex(step) == CHOOSE i \in 1..Len(StepOrder) : StepOrder[i] = step

\* C8: every image process returns has the width and height of the input image,
\* whatever the working resolution; the steps of a call happen in the order
\* resize, preprocess, forward pass, resize back, foreground, edge mask.
C8_ResizedBackToInput ==
    pc = "returned" =>
        /\ \A i \in 1..Len(ret.steps) : \A j \in 1..Len(ret.steps) :
              i < j => StepIndex(ret.steps[i]) < StepIndex(ret.steps[j])
        /\ (ret.kind = "returned" /\ AnyRequested) =>
              /\ \A img \in {ret.mask, ret.foreground, ret.edge_mask} \ {NoneImg} :
                    HasSizeOf(img, call.image)
              /\ SubSeq(ret.steps, 1, 5) = SubSeq(StepOrder, 1, 5)
              /\ call.return_foreground <=> \E i \in 1..Len(ret.steps) : ret.steps[i] = "foreground"
              /\ call.return_edge_mask <=> \E i \in 1..Len(ret.steps) : ret.steps[i] = "edge_mask"

\* a call worked at 64x32 on a 33x32 image and returned three images of 33x32
C8_Witness ==
    /\ pc = "returned"
    /\ ret.kind = "returned"
    /\ call.image.width = 33 /\ call.image.height = 32
    /\ ret.image_resolution = <<64, 32>>
    /\ ret.mask.width = 33 /\ ret.foreground.width = 33 /\ ret.edge_mask.width = 33
    /\ ret.mask.height = 32 /\ ret.foreground.height = 32 /\ ret.edge_mask.height = 32
    /\ Len(ret.steps) = Len(StepOrder)

WeightsUrlOf(model_name) ==
    "https://huggingface.co/ZhengPeng7/" \o usage_to_weights_file[model_name]
        \o "/resolve/main/model.safetensors"

\* C9: each of the 14 model names has a registry entry; the path
\* download_birefnet_model checks and writes for a name is the path
\* get_model_path returns and the constructor loads; different names have
\* different paths; a pipeline holds the weights downloaded for its own name.
C9_CacheKeyedByModelName ==
    /\ Cardinality(BiRefNetModelName) = 14
    /\ BiRefNetModelName = DOMAIN usage_to_weights_file
    /\ \A n \in BiRefNetModelName :
          /\ DOMAIN download_birefnet_model(EmptyFs, n, TRUE).files = {get_model_path(n)}
          /\ get_model_path(n) = models_path \o "/birefnet/" \o n \o ".safetensors"
          /\ download_birefnet_model([EmptyFs EXCEPT !.files = (get_model_path(n) :> "")],
                                     n, TRUE).url_calls = <<>>
    /\ Cardinality({get_model_path(n) : n \in BiRefNetModelName}) = 14
    /\ \A n \in UsedModelNames :
          get_model_path(n) \in DOMAIN fs.files =>
              fs.files[get_model_path(n)] = WeightsUrlOf(n)
    /\ DOMAIN fs.files \subseteq {get_model_path(n) : n \in UsedModelNames}
    /\ pipe.constructed => pipe.birefnet.weights = WeightsUrlOf(pipe.model_name)

\* two model names are cached, and the pipeline built last holds the weights of
\* its own name
C9_Witness ==
    /\ pc = "constructed"
    /\ ~last_init.raised
    /\ Cardinality(DOMAIN fs.files) = 2
    /\ pipe.model_name = "Matting-Lite"
    /\ pipe.birefnet.weights = WeightsUrlOf("Matting-Lite")
    /\ pipe.birefnet.bb_index = 3

\* C10: for an image of positive width and height and a request of positive
\* dimensions (the image's own size when the string is empty), both dimensions
\* of the working resolution are at least 32.
C10_WorkingResolutionPositive ==
    (/\ pc = "returned"
     /\ AnyRequested
     /\ call.image.width > 0 /\ call.image.height > 0
     /\ \/ call.resolution = ""
        \/ \E w \in Dims, h \in Dims : w > 0 /\ h > 0 /\ call.resolution = WxH(w, h)) =>
        /\ Len(ret.image_resolution) = 2
        /\ ret.image_resolution[1] >= 32
        /\ ret.image_resolution[2] >= 32

====
